---- MODULE Spec2Model ----
(***************************************************************************)
(* Model of src/src/table-script.tsx: the data pipeline behind the         *)
(* utilisation table (month discovery, net earnings, row assembly,         *)
(* formatting and colour classification).                                  *)
(*                                                                         *)
(* Representation.                                                         *)
(*  - A string that the code parses or concatenates (numeric strings,      *)
(*    names, formatted cells) is a sequence of one-character strings.      *)
(*  - A month label, a quarter name, a cost period and a status are only   *)
(*    compared, looked up or lower-cased by the code: they are TLA+        *)
(*    strings, and toLowerCase is tabulated over the labels in use.        *)
(*  - An optional value (undefined / null / a missing property) is a       *)
(*    sequence of length 0 (absent) or 1 (present).                        *)
(*  - A JavaScript number is [kind, n, d]: kind "num" is the rational n/d  *)
(*    (d > 0), kind "nan" is NaN and kind "null" is null.  The decimal     *)
(*    strings of the model have at most two fractional digits, where the   *)
(*    rational result of parseFloat, / 3, - , * 100 and toFixed agrees     *)
(*    with IEEE doubles (no value of the model sits on a rounding tie      *)
(*    that binary representation would move).  Exponent notation and the   *)
(*    literal "Infinity" are outside the strings of the model.             *)
(***************************************************************************)
EXTENDS Integers, Sequences, FiniteSets, TLC

VARIABLES
    pc,             \* position of the run: which call comes next
    data,           \* sourceData: the sequence of source records
    dynamicMonths,  \* Example, line 37: result of getAvailableMonths
    tableData,      \* Example, line 40: result of transformToTableData
    entityArg,      \* argument of calculateNetEarningsPrevMonth
    net,            \* its result
    netText,        \* formatCurrency(net)
    value,          \* argument of formatPercentage / formatCurrency
    pctText,        \* formatPercentage(value)
    curText,        \* formatCurrency(value)
    color           \* getUtilizationColor(pctText)

vars == <<pc, data, dynamicMonths, tableData, entityArg, net, netText,
          value, pctText, curText, color>>

----------------------------------------------------------------------------
(* Optional values *)

Absent == <<>>
Some(x) == <<x>>
IsPresent(o) == Len(o) = 1
Get(o) == o[1]

----------------------------------------------------------------------------
(* Numbers *)

Num(n, d) == [kind |-> "num", n |-> n, d |-> d]
NaN == [kind |-> "nan", n |-> 0, d |-> 1]
Null == [kind |-> "null", n |-> 0, d |-> 1]

IsNaN(x) == x.kind = "nan"
IsFinite(x) == x.kind = "num"

\* value equality of two numbers (NaN equals only itself here: the model
\* compares results, it does not model the === operator on NaN)
NumEq(x, y) ==
    /\ x.kind = y.kind
    /\ x.kind = "num" => x.n * y.d = y.n * x.d

\* x - y
Sub(x, y) ==
    IF IsNaN(x) \/ IsNaN(y) THEN NaN
    ELSE Num(x.n * y.d - y.n * x.d, x.d * y.d)

\* x / k, k a positive integer literal
DivBy(x, k) == IF IsNaN(x) THEN NaN ELSE Num(x.n, x.d * k)

\* x * k, k a positive integer literal
MulBy(x, k) == IF IsNaN(x) THEN NaN ELSE Num(x.n * k, x.d)

\* x >= k, k an integer literal; false for NaN as in JavaScript
Geq(x, k) == IsFinite(x) /\ x.n >= k * x.d

RECURSIVE Pow10(_)
Pow10(k) == IF k = 0 THEN 1 ELSE 10 * Pow10(k - 1)

Abs(i) == IF i < 0 THEN -i ELSE i

----------------------------------------------------------------------------
(* Characters and strings *)

DigitChars == {"0", "1", "2", "3", "4", "5", "6", "7", "8", "9"}

DigitVal(c) ==
    CASE c = "0" -> 0 [] c = "1" -> 1 [] c = "2" -> 2 [] c = "3" -> 3
      [] c = "4" -> 4 [] c = "5" -> 5 [] c = "6" -> 6 [] c = "7" -> 7
      [] c = "8" -> 8 [] c = "9" -> 9

DigitChar(i) ==
    CASE i = 0 -> "0" [] i = 1 -> "1" [] i = 2 -> "2" [] i = 3 -> "3"
      [] i = 4 -> "4" [] i = 5 -> "5" [] i = 6 -> "6" [] i = 7 -> "7"
      [] i = 8 -> "8" [] i = 9 -> "9"

\* the string s without its first k characters
Drop(s, k) == SubSeq(s, k + 1, Len(s))

\* number of leading white-space characters
RECURSIVE LeadingSpaces(_)
LeadingSpaces(s) ==
    IF s # <<>> /\ Head(s) = " " THEN 1 + LeadingSpaces(Tail(s)) ELSE 0

\* number of leading decimal digits
RECURSIVE LeadingDigits(_)
LeadingDigits(s) ==
    IF s # <<>> /\ Head(s) \in DigitChars THEN 1 + LeadingDigits(Tail(s)) ELSE 0

\* value of a string of decimal digits (0 for the empty string)
RECURSIVE DigitsToNat(_)
DigitsToNat(s) ==
    IF s = <<>> THEN 0
    ELSE 10 * DigitsToNat(SubSeq(s, 1, Len(s) - 1)) + DigitVal(s[Len(s)])

\* decimal digits of a natural number
RECURSIVE NatToStr(_)
NatToStr(i) ==
    IF i < 10 THEN <<DigitChar(i)>>
    ELSE NatToStr(i \div 10) \o <<DigitChar(i % 10)>>

\* s left-padded with "0" to at least k characters
RECURSIVE PadZeros(_, _)
PadZeros(s, k) == IF Len(s) >= k THEN s ELSE PadZeros(<<"0">> \o s, k)

\* parseFloat(s): skip leading white space, then the longest prefix
\* [+-] digits [. digits] with at least one digit; NaN when there is none.
ParseFloat(s) ==
    LET t == Drop(s, LeadingSpaces(s))
        signed == t # <<>> /\ Head(t) \in {"+", "-"}
        sign == IF t # <<>> /\ Head(t) = "-" THEN -1 ELSE 1
        u == IF signed THEN Tail(t) ELSE t
        i == LeadingDigits(u)
        afterInt == Drop(u, i)
        hasDot == afterInt # <<>> /\ Head(afterInt) = "."
        f == IF hasDot THEN LeadingDigits(Tail(afterInt)) ELSE 0
        intPart == DigitsToNat(SubSeq(u, 1, i))
        fracPart == IF f = 0 THEN 0 ELSE DigitsToNat(SubSeq(afterInt, 2, f + 1))
    IN  IF i + f = 0 THEN NaN
        ELSE Num(sign * (intPart * Pow10(f) + fracPart), Pow10(f))

\* parseFloat of a possibly missing property: parseFloat(undefined) is NaN
ParseFloatOpt(o) == IF IsPresent(o) THEN ParseFloat(Get(o)) ELSE NaN

\* Number.prototype.toFixed(f) of a finite number: sign first, then the
\* magnitude rounded to f decimals (the larger candidate on a tie).
ToFixed(x, f) ==
    LET neg == x.n < 0
        scaled == (2 * Abs(x.n) * Pow10(f) + x.d) \div (2 * x.d)
        digits == PadZeros(NatToStr(scaled), f + 1)
        k == Len(digits) - f
        body == IF f = 0 THEN digits
                ELSE SubSeq(digits, 1, k) \o <<".">> \o SubSeq(digits, k + 1, Len(digits))
    IN  (IF neg THEN <<"-">> ELSE <<>>) \o body

----------------------------------------------------------------------------
(* Constants & configuration, lines 8-33 *)

CURRENT_MONTH == "2024-07"

THRESHOLD_HIGH == 80
THRESHOLD_MEDIUM == 50

COLOR_HIGH == "#2e7d32"
COLOR_MEDIUM == "#ed6c02"
COLOR_LOW == "#d32f2f"
COLOR_NEUTRAL == "#666"

\* MONTH_ORDER[label] || 0: a label that is no key of the table yields
\* undefined, which || turns into 0
MonthOrder(label) ==
    CASE label = "January" -> 1 [] label = "February" -> 2
      [] label = "March" -> 3 [] label = "April" -> 4
      [] label = "May" -> 5 [] label = "June" -> 6
      [] label = "July" -> 7 [] label = "August" -> 8
      [] label = "September" -> 9 [] label = "October" -> 10
      [] label = "November" -> 11 [] label = "December" -> 12
      [] OTHER -> 0

\* String.prototype.toLowerCase over the labels of the model
ToLowerCase(label) ==
    CASE label = "January" -> "january" [] label = "February" -> "february"
      [] label = "March" -> "march" [] label = "April" -> "april"
      [] label = "May" -> "may" [] label = "June" -> "june"
      [] label = "July" -> "july" [] label = "August" -> "august"
      [] label = "September" -> "september" [] label = "October" -> "october"
      [] label = "November" -> "november" [] label = "December" -> "december"
      [] label = "JULY" -> "july" [] label = "Foo" -> "foo"
      [] OTHER -> label

----------------------------------------------------------------------------
(* Helper functions, lines 177-211 *)

Str0Pct == <<"0", "%">>
Str0Eur == <<"0", ".", "0", "0", " ", "E", "U", "R">>

\* formatPercentage without the isNaN test
FormatPercentageNoNaNTest(v) ==
    IF v.kind = "null" THEN Str0Pct
    ELSE IF IsNaN(v) THEN <<"N", "a", "N", "%">>
    ELSE ToFixed(MulBy(v, 100), 0) \o <<"%">>

\* formatPercentage, lines 177-180
FormatPercentage(v) ==
    IF v.kind = "null" \/ IsNaN(v) THEN Str0Pct
    ELSE ToFixed(MulBy(v, 100), 0) \o <<"%">>

\* formatCurrency, lines 182-185
FormatCurrency(v) ==
    IF v.kind = "null" \/ IsNaN(v) THEN Str0Eur
    ELSE ToFixed(v, 2) \o <<" ", "E", "U", "R">>

\* getUtilizationColor with > in place of >=
GetUtilizationColorStrict(percentageString) ==
    LET numValue == ParseFloat(percentageString)
    IN  IF IsNaN(numValue) THEN COLOR_NEUTRAL
        ELSE IF Geq(numValue, THRESHOLD_HIGH + 1) THEN COLOR_HIGH
        ELSE IF Geq(numValue, THRESHOLD_MEDIUM + 1) THEN COLOR_MEDIUM
        ELSE COLOR_LOW

\* getUtilizationColor, lines 187-193
GetUtilizationColor(percentageString) ==
    LET numValue == ParseFloat(percentageString)
    IN  IF IsNaN(numValue) THEN COLOR_NEUTRAL
        ELSE IF Geq(numValue, THRESHOLD_HIGH) THEN COLOR_HIGH
        ELSE IF Geq(numValue, THRESHOLD_MEDIUM) THEN COLOR_MEDIUM
        ELSE COLOR_LOW

\* the first of the indices `hits`, 0 when there is none
\* (Array.prototype.find visits the elements in order and stops at a match)
FirstIndex(hits) ==
    IF hits = {} THEN 0 ELSE CHOOSE i \in hits : \A j \in hits : i <= j

\* the TypeError of m.month.toLowerCase() on an entry without a month
Threw == [kind |-> "throw", n |-> 0, d |-> 1]

\* getMonthUtilization comparing the labels as they are
GetMonthUtilizationCaseSensitive(lastThreeMonths, monthName) ==
    IF ~IsPresent(lastThreeMonths) THEN Null
    ELSE LET l == Get(lastThreeMonths)
             Matches(m) == IsPresent(m.month) /\ Get(m.month) = monthName
             hit == FirstIndex({i \in 1..Len(l) : Matches(l[i])})
         IN  IF hit = 0 THEN Null ELSE ParseFloatOpt(l[hit].utilisationRate)

\* getMonthUtilization, lines 202-211.  find evaluates the callback on the
\* entries up to and including the first match; the callback throws on an
\* entry whose month is undefined.
GetMonthUtilization(lastThreeMonths, monthName) ==
    IF ~IsPresent(lastThreeMonths) THEN Null
    ELSE LET l == Get(lastThreeMonths)
             Matches(m) == IsPresent(m.month)
                           /\ ToLowerCase(Get(m.month)) = ToLowerCase(monthName)
             hit == FirstIndex({i \in 1..Len(l) : Matches(l[i])})
             visited == IF hit = 0 THEN Len(l) ELSE hit
         IN  IF \E i \in 1..visited : ~IsPresent(l[i].month) THEN Threw
             ELSE IF hit = 0 THEN Null
             ELSE ParseFloatOpt(l[hit].utilisationRate)

----------------------------------------------------------------------------
(* Month discovery, lines 214-225 *)

\* row.employees || row.externals (an object is truthy, undefined is not)
ResolveEntity(row) ==
    IF IsPresent(row.employees) THEN row.employees ELSE row.externals

\* entity?.workforceUtilisation
WorkforceOf(entity) ==
    IF IsPresent(entity) THEN Get(entity).workforceUtilisation ELSE Absent

\* workforce?.lastThreeMonthsIndividually
LastThreeOf(workforce) ==
    IF IsPresent(workforce) THEN Get(workforce).lastThreeMonthsIndividually
    ELSE Absent

\* if (item.month) monthsSet.add(item.month): undefined and "" are falsy; a
\* Set keeps its members in insertion order and ignores a repeated add
RECURSIVE AddMonths(_, _)
AddMonths(monthsSet, items) ==
    IF items = <<>> THEN monthsSet
    ELSE LET m == Head(items).month
             truthy == IsPresent(m) /\ Get(m) # ""
             already == \E i \in 1..Len(monthsSet) : monthsSet[i] = Get(m)
         IN  AddMonths(IF truthy /\ ~already THEN Append(monthsSet, Get(m))
                       ELSE monthsSet,
                       Tail(items))

\* month discovery that looks at active entities only
RECURSIVE CollectMonthsActiveOnly(_, _)
CollectMonthsActiveOnly(monthsSet, rows) ==
    IF rows = <<>> THEN monthsSet
    ELSE LET e == ResolveEntity(Head(rows))
             l == LastThreeOf(WorkforceOf(e))
             active == IsPresent(e) /\ Get(e).status = "active"
         IN  CollectMonthsActiveOnly(
                 IF active /\ IsPresent(l) THEN AddMonths(monthsSet, Get(l))
                 ELSE monthsSet,
                 Tail(rows))

\* data.forEach(row => ...lastThreeMonthsIndividually?.forEach(...))
RECURSIVE CollectMonths(_, _)
CollectMonths(monthsSet, rows) ==
    IF rows = <<>> THEN monthsSet
    ELSE LET l == LastThreeOf(WorkforceOf(ResolveEntity(Head(rows))))
         IN  CollectMonths(IF IsPresent(l) THEN AddMonths(monthsSet, Get(l))
                           ELSE monthsSet,
                           Tail(rows))

\* the comparator with its operands exchanged
CompareMonthsDescending(a, b) == MonthOrder(b) - MonthOrder(a)

\* the comparator of line 224
CompareMonths(a, b) == MonthOrder(a) - MonthOrder(b)

\* x placed into the sorted sequence s behind every element it does not
\* precede (Array.prototype.sort is stable)
RECURSIVE InsertMonth(_, _)
InsertMonth(s, x) ==
    IF s = <<>> THEN <<x>>
    ELSE IF CompareMonths(x, Head(s)) < 0 THEN <<x>> \o s
    ELSE <<Head(s)>> \o InsertMonth(Tail(s), x)

RECURSIVE SortMonths(_)
SortMonths(s) ==
    IF s = <<>> THEN <<>>
    ELSE InsertMonth(SortMonths(SubSeq(s, 1, Len(s) - 1)), s[Len(s)])

\* getAvailableMonths, lines 214-225
GetAvailableMonths(rows) == SortMonths(CollectMonths(<<>>, rows))

----------------------------------------------------------------------------
(* Net earnings, lines 228-250 *)

Str0 == <<"0">>

\* x || "0" for an optional string: undefined and "" are falsy
OrZero(o) == IF IsPresent(o) /\ Get(o) # <<>> THEN Get(o) ELSE Str0

\* the two alternatives of the cost array tried in the other order
ResolveCostsOtherOrder(entity) ==
    IF ~IsPresent(entity.costsByMonth) THEN Absent
    ELSE LET c == Get(entity.costsByMonth)
         IN  IF IsPresent(c.costsByMonth) THEN c.costsByMonth
             ELSE c.potentialEarningsByMonth

\* entity?.costsByMonth?.potentialEarningsByMonth || entity?.costsByMonth?.costsByMonth
\* (an array, even an empty one, is truthy)
ResolveCosts(entity) ==
    IF ~IsPresent(entity.costsByMonth) THEN Absent
    ELSE LET c == Get(entity.costsByMonth)
         IN  IF IsPresent(c.potentialEarningsByMonth)
             THEN c.potentialEarningsByMonth
             ELSE c.costsByMonth

\* lines 230-237
CostsOf(entity) ==
    LET costsByMonth == ResolveCosts(entity)
        IsCurrent(m) == m.month = CURRENT_MONTH
        hit == IF IsPresent(costsByMonth)
               THEN FirstIndex({i \in 1..Len(Get(costsByMonth)) :
                                  IsCurrent(Get(costsByMonth)[i])})
               ELSE 0
    IN  IF hit = 0 THEN Num(0, 1)
        ELSE ParseFloat(OrZero(Get(costsByMonth)[hit].costs))

\* lines 240-247
RevenueOf(entity) ==
    LET workforce == entity.workforceUtilisation
        qe == IF IsPresent(workforce) THEN Get(workforce).quarterEarnings
              ELSE Absent
        IsQ3(q) == q.name = "Q3"
        hit == IF IsPresent(qe)
               THEN FirstIndex({i \in 1..Len(Get(qe)) : IsQ3(Get(qe)[i])})
               ELSE 0
    IN  IF hit = 0 THEN Num(0, 1)
        ELSE DivBy(ParseFloat(OrZero(Get(qe)[hit].earnings)), 3)

\* calculateNetEarningsPrevMonth, lines 228-250
CalculateNetEarningsPrevMonth(entity) == Sub(RevenueOf(entity), CostsOf(entity))

----------------------------------------------------------------------------
(* Row assembly, lines 253-283 *)

StrExternal == <<" ", "(", "E", "x", "t", "e", "r", "n", "a", "l", ")">>

\* x ? parseFloat(x) : null for an optional string, lines 269-270
ParseOrNull(o) ==
    IF IsPresent(o) /\ Get(o) # <<>> THEN ParseFloat(Get(o)) ELSE Null

\* the filter looking at employees only
IsActiveRowEmployeesOnly(dataRow) ==
    IsPresent(dataRow.employees) /\ Get(dataRow.employees).status = "active"

\* the filter of lines 255-258
IsActiveRow(dataRow) ==
    LET entity == ResolveEntity(dataRow)
    IN  IsPresent(entity) /\ Get(entity).status = "active"

\* the template literal without the role suffix
PersonOfWithoutSuffix(entity, isExternal) ==
    entity.firstname \o <<" ">> \o entity.lastname

\* the template literal of line 268
PersonOf(entity, isExternal) ==
    entity.firstname \o <<" ">> \o entity.lastname
        \o (IF isExternal THEN StrExternal ELSE <<>>)

\* the object literal of lines 267-272
BaseRow(dataRow) ==
    LET entity == Get(ResolveEntity(dataRow))
        isExternal == IsPresent(dataRow.externals)
        workforce == entity.workforceUtilisation
        u12 == IF IsPresent(workforce)
               THEN Get(workforce).utilisationRateLastTwelveMonths ELSE Absent
        ytd == IF IsPresent(workforce)
               THEN Get(workforce).utilisationRateYearToDate ELSE Absent
    IN  [k \in {"person", "past12Months", "y2d", "netEarningsPrevMonth"} |->
            CASE k = "person" -> PersonOf(entity, isExternal)
              [] k = "past12Months" -> FormatPercentage(ParseOrNull(u12))
              [] k = "y2d" -> FormatPercentage(ParseOrNull(ytd))
              [] k = "netEarningsPrevMonth" ->
                    FormatCurrency(CalculateNetEarningsPrevMonth(entity))]

\* rowData[month] = formatPercentage(util) for each month in turn,
\* lines 275-278: a later assignment to the same key overwrites
RECURSIVE MapMonths(_, _, _)
MapMonths(rowData, lastThree, months) ==
    IF months = <<>> THEN rowData
    ELSE LET month == Head(months)
             cell == FormatPercentage(GetMonthUtilization(lastThree, month))
         IN  MapMonths([k \in DOMAIN rowData \cup {month} |->
                            IF k = month THEN cell ELSE rowData[k]],
                       lastThree, Tail(months))

\* the callback of lines 259-281 on one row that passed the filter
RowOf(dataRow, monthsToMap) ==
    MapMonths(BaseRow(dataRow),
              LastThreeOf(WorkforceOf(ResolveEntity(dataRow))),
              monthsToMap)

\* whether the callback throws on this row: some getMonthUtilization call does
RowThrows(dataRow, monthsToMap) ==
    \E i \in 1..Len(monthsToMap) :
        GetMonthUtilization(LastThreeOf(WorkforceOf(ResolveEntity(dataRow))),
                            monthsToMap[i]) = Threw

\* transformToTableData, lines 253-283: [threw, rows]; rows is empty when
\* the call throws (nothing is returned).  After the filter every row has an
\* entity, so the callback's "return null" and the closing filter keep all.
TransformToTableData(dataRows, monthsToMap) ==
    LET kept == SelectSeq(dataRows, IsActiveRow)
        threw == \E i \in 1..Len(kept) : RowThrows(kept[i], monthsToMap)
    IN  [threw |-> threw,
         rows |-> IF threw THEN <<>>
                  ELSE [i \in 1..Len(kept) |-> RowOf(kept[i], monthsToMap)]]

----------------------------------------------------------------------------
(* Inputs *)

MaxRecords == 2       \* records in sourceData
MaxCostEntries == 2   \* entries of a cost array, quarters of quarterEarnings
MaxHundredths == 120  \* formatter arguments range over -1.20 .. 1.20

S_085 == <<"0", ".", "8", "5">>
S_08 == <<"0", ".", "8">>
S_05 == <<"0", ".", "5">>
S_049 == <<"0", ".", "4", "9">>
S_03 == <<"0", ".", "3">>
S_09 == <<"0", ".", "9">>
S_abc == <<"a", "b", "c">>
S_100 == <<"1", "0", "0">>
S_300 == <<"3", "0", "0">>
S_90 == <<"9", "0">>
S_335 == <<"3", "3", ".", "5">>
S_Ana == <<"A", "n", "a">>
S_Lee == <<"L", "e", "e">>
S_Bob == <<"B", "o", "b">>
S_Ray == <<"R", "a", "y">>

MonthEntry(m, r) == [month |-> m, utilisationRate |-> r]
CostEntry(m, c) == [month |-> m, costs |-> c]
Quarter(q, e) == [name |-> q, earnings |-> e]

\* lastThreeMonthsIndividually of records that follow the declared type
\* (month and utilisationRate are strings, line 203)
TypedLastThree ==
    { Absent,
      Some(<<MonthEntry(Some("March"), Some(S_085)),
             MonthEntry(Some("January"), Some(S_05))>>),
      Some(<<MonthEntry(Some("july"), Some(S_03)),
             MonthEntry(Some("July"), Some(S_09))>>),
      Some(<<MonthEntry(Some("Foo"), Some(S_abc)),
             MonthEntry(Some(""), Some(S_08)),
             MonthEntry(Some("January"), Some(S_049))>>),
      Some(<<MonthEntry(Some("July"), Some(S_08)),
             MonthEntry(Some("July"), Some(S_03))>>) }

\* the same with properties of an entry missing
PartialLastThree ==
    { Some(<<MonthEntry(Absent, Some(S_05)),
             MonthEntry(Some("July"), Some(S_09))>>),
      Some(<<MonthEntry(Some("July"), Absent),
             MonthEntry(Absent, Some(S_05))>>),
      Some(<<MonthEntry(Some("March"), Absent)>>) }

Profiles ==
    { [firstname |-> S_Ana, lastname |-> S_Lee,
       u12 |-> Some(S_085), ytd |-> Some(S_05),
       qe |-> Some(<<Quarter("Q3", Some(S_300))>>),
       costs |-> Some([potentialEarningsByMonth |->
                           Some(<<CostEntry(CURRENT_MONTH, Some(S_100))>>),
                       costsByMonth |-> Absent])],
      [firstname |-> S_Bob, lastname |-> S_Ray,
       u12 |-> Absent, ytd |-> Some(S_abc),
       qe |-> Absent,
       costs |-> Absent],
      [firstname |-> S_Ana, lastname |-> S_Lee,
       u12 |-> Some(<<>>), ytd |-> Absent,
       qe |-> Some(<<Quarter("Q2", Some(S_90)), Quarter("Q3", Some(S_100))>>),
       costs |-> Some([potentialEarningsByMonth |-> Absent,
                       costsByMonth |->
                           Some(<<CostEntry("2024-06", Some(S_90)),
                                  CostEntry(CURRENT_MONTH, Some(S_335))>>)])] }

Workforces(p, lastThree) ==
    {Absent} \cup
    { Some([utilisationRateLastTwelveMonths |-> p.u12,
            utilisationRateYearToDate |-> p.ytd,
            lastThreeMonthsIndividually |-> l,
            quarterEarnings |-> p.qe]) : l \in lastThree }

\* the first profile, the one inactive entities are drawn from: of an
\* inactive entity the pipeline reads the status and the month labels only
InactiveProfile == CHOOSE p \in Profiles : p.firstname = S_Ana /\ p.u12 = Some(S_085)

EntityOf(st, p, w) ==
    [status |-> st, firstname |-> p.firstname, lastname |-> p.lastname,
     workforceUtilisation |-> w, costsByMonth |-> p.costs]

Entities(lastThree) ==
    UNION { {EntityOf("active", p, w) : w \in Workforces(p, lastThree)}
            : p \in Profiles }
    \cup {EntityOf("inactive", InactiveProfile, w)
              : w \in Workforces(InactiveProfile, lastThree)}

\* a source record: at most one of the two roles is populated
Records(lastThree) ==
    {[employees |-> Absent, externals |-> Absent]}
    \cup {[employees |-> Some(e), externals |-> Absent] : e \in Entities(lastThree)}
    \cup {[employees |-> Absent, externals |-> Some(e)] : e \in Entities(lastThree)}

DataSets(lastThree) ==
    UNION {[1..n -> Records(lastThree)] : n \in 0..MaxRecords}

CostEntries ==
    { CostEntry(CURRENT_MONTH, Some(S_100)), CostEntry(CURRENT_MONTH, Some(S_abc)),
      CostEntry("2024-06", Some(S_90)), CostEntry(CURRENT_MONTH, Some(S_335)),
      CostEntry(CURRENT_MONTH, Absent) }

Quarters ==
    { Quarter("Q3", Some(S_300)), Quarter("Q3", Some(S_abc)),
      Quarter("Q2", Some(S_90)), Quarter("Q3", Some(S_100)),
      Quarter("Q3", Some(<<>>)) }

ArraysOf(S, maxLen) == UNION {[1..n -> S] : n \in 0..maxLen}

OptArraysOf(S, maxLen) == {Absent} \cup {Some(a) : a \in ArraysOf(S, maxLen)}

CostTables ==
    {Absent} \cup
    { Some([potentialEarningsByMonth |-> a, costsByMonth |-> b])
      : <<a, b>> \in OptArraysOf(CostEntries, MaxCostEntries)
                     \X OptArraysOf(CostEntries, 1) }

EarningsWorkforces ==
    {Absent} \cup
    { Some([utilisationRateLastTwelveMonths |-> Absent,
            utilisationRateYearToDate |-> Absent,
            lastThreeMonthsIndividually |-> Absent,
            quarterEarnings |-> q]) : q \in OptArraysOf(Quarters, MaxCostEntries) }

EarningsEntities ==
    { [status |-> "active", firstname |-> S_Ana, lastname |-> S_Lee,
       workforceUtilisation |-> w, costsByMonth |-> c]
      : <<w, c>> \in EarningsWorkforces \X CostTables }

FormatterValues ==
    {Null, NaN} \cup {Num(k, 100) : k \in (0 - MaxHundredths)..MaxHundredths}

IdleEntity ==
    [status |-> "inactive", firstname |-> <<>>, lastname |-> <<>>,
     workforceUtilisation |-> Absent, costsByMonth |-> Absent]

NoTable == [threw |-> FALSE, rows |-> <<>>]

----------------------------------------------------------------------------
(* The pipeline of Example, lines 36-42 *)

InitWith(lastThree) ==
    /\ pc = "start"
    /\ data \in DataSets(lastThree)
    /\ dynamicMonths = <<>>
    /\ tableData = NoTable
    /\ entityArg = IdleEntity
    /\ net = Null
    /\ netText = <<>>
    /\ value = Null
    /\ pctText = <<>>
    /\ curText = <<>>
    /\ color = ""

Init == InitWith(TypedLastThree)

InitPartial == InitWith(TypedLastThree \cup PartialLastThree)

\* line 37
ExtractMonths ==
    /\ pc = "start"
    /\ dynamicMonths' = GetAvailableMonths(data)
    /\ pc' = "months"
    /\ UNCHANGED <<data, tableData, entityArg, net, netText, value, pctText,
                   curText, color>>

\* lines 40-42
GenerateTableData ==
    /\ pc = "months"
    /\ tableData' = TransformToTableData(data, dynamicMonths)
    /\ pc' = IF tableData'.threw THEN "threw" ELSE "table"
    /\ UNCHANGED <<data, dynamicMonths, entityArg, net, netText, value, pctText,
                   curText, color>>

Next == ExtractMonths \/ GenerateTableData

Spec == Init /\ [][Next]_vars

SpecPartial == InitPartial /\ [][Next]_vars

----------------------------------------------------------------------------
(* calculateNetEarningsPrevMonth and formatCurrency on one entity, line 271 *)

InitEarnings ==
    /\ pc = "calc"
    /\ entityArg \in EarningsEntities
    /\ net = Null
    /\ netText = <<>>
    /\ data = <<>>
    /\ dynamicMonths = <<>>
    /\ tableData = NoTable
    /\ value = Null
    /\ pctText = <<>>
    /\ curText = <<>>
    /\ color = ""

CalculateNet ==
    /\ pc = "calc"
    /\ net' = CalculateNetEarningsPrevMonth(entityArg)
    /\ pc' = "net"
    /\ UNCHANGED <<data, dynamicMonths, tableData, entityArg, netText, value,
                   pctText, curText, color>>

FormatNet ==
    /\ pc = "net"
    /\ netText' = FormatCurrency(net)
    /\ pc' = "netText"
    /\ UNCHANGED <<data, dynamicMonths, tableData, entityArg, net, value,
                   pctText, curText, color>>

NextEarnings == CalculateNet \/ FormatNet

SpecEarnings == InitEarnings /\ [][NextEarnings]_vars

----------------------------------------------------------------------------
(* The formatters and the classifier on one value, lines 66-68 and 177-193 *)

InitFormat ==
    /\ pc = "value"
    /\ value \in FormatterValues
    /\ pctText = <<>>
    /\ curText = <<>>
    /\ color = ""
    /\ data = <<>>
    /\ dynamicMonths = <<>>
    /\ tableData = NoTable
    /\ entityArg = IdleEntity
    /\ net = Null
    /\ netText = <<>>

FormatValue ==
    /\ pc = "value"
    /\ pctText' = FormatPercentage(value)
    /\ curText' = FormatCurrency(value)
    /\ pc' = "text"
    /\ UNCHANGED <<data, dynamicMonths, tableData, entityArg, net, netText,
                   value, color>>

\* the Cell renderer of a ratio column, lines 66-70
RenderCell ==
    /\ pc = "text"
    /\ color' = GetUtilizationColor(pctText)
    /\ pc' = "cell"
    /\ UNCHANGED <<data, dynamicMonths, tableData, entityArg, net, netText,
                   value, pctText, curText>>

NextFormat == FormatValue \/ RenderCell

SpecFormat == InitFormat /\ [][NextFormat]_vars

----------------------------------------------------------------------------
(* Vocabulary of the properties *)

BaseKeys == {"person", "past12Months", "y2d", "netEarningsPrevMonth"}

\* the record's entity (employees, else externals) has status "active"
HasActiveStatus(r) ==
    \/ IsPresent(r.employees) /\ Get(r.employees).status = "active"
    \/ /\ ~IsPresent(r.employees)
       /\ IsPresent(r.externals)
       /\ Get(r.externals).status = "active"

ActiveIndices == {i \in 1..Len(data) : HasActiveStatus(data[i])}

\* position among the active records of the active record at index i
RankOf(i) == Cardinality({j \in ActiveIndices : j <= i})

\* the individual-month entries of a record (none when a level is absent)
EntriesOf(r) ==
    LET l == LastThreeOf(WorkforceOf(ResolveEntity(r)))
    IN  IF IsPresent(l) THEN Get(l) ELSE <<>>

\* the non-empty month labels that occur in some record
DiscoveredLabels ==
    UNION { { Get(EntriesOf(data[i])[j].month) :
                j \in { j \in 1..Len(EntriesOf(data[i])) :
                          /\ IsPresent(EntriesOf(data[i])[j].month)
                          /\ Get(EntriesOf(data[i])[j].month) # "" } }
            : i \in 1..Len(data) }

RecognizedMonths ==
    <<"January", "February", "March", "April", "May", "June", "July",
      "August", "September", "October", "November", "December">>

\* the month-name lookup of the claim: January = 1 ... December = 12, and 0
\* for a label that is no month name
LookupRank(label) ==
    IF \E k \in 1..12 : RecognizedMonths[k] = label
    THEN CHOOSE k \in 1..12 : RecognizedMonths[k] = label
    ELSE 0

\* indices of the entries of r whose label equals the column ignoring case
MatchingEntries(r, column) ==
    {j \in 1..Len(EntriesOf(r)) :
        /\ IsPresent(EntriesOf(r)[j].month)
        /\ ToLowerCase(Get(EntriesOf(r)[j].month)) = ToLowerCase(column)}

MinOf(S) == CHOOSE x \in S : \A y \in S : x <= y

\* an optional numeric string that is absent, empty or unparsable
NoRatio(o) == ~IsPresent(o) \/ Get(o) = <<>> \/ IsNaN(ParseFloat(Get(o)))

SummaryOf(r, field) ==
    LET w == WorkforceOf(ResolveEntity(r))
    IN  IF ~IsPresent(w) THEN Absent
        ELSE IF field = "u12" THEN Get(w).utilisationRateLastTwelveMonths
        ELSE Get(w).utilisationRateYearToDate

Returned == pc = "table"

----------------------------------------------------------------------------
(* Properties *)

\* C1: transformToTableData returns exactly one row per record whose
\* resolved entity has status "active" and none for any other record, in the
\* order of those records in the input.
C1_OneRowPerActiveRecordInOrder ==
    /\ pc # "threw"
    /\ Returned =>
        /\ Len(tableData.rows) = Cardinality(ActiveIndices)
        /\ \A i \in ActiveIndices :
              tableData.rows[RankOf(i)] = RowOf(data[i], dynamicMonths)

\* an inactive external record is dropped, the active record behind it kept
C1_Witness ==
    /\ Returned
    /\ Len(data) = 2
    /\ IsPresent(data[1].externals) /\ ~HasActiveStatus(data[1])
    /\ HasActiveStatus(data[2])
    /\ Len(tableData.rows) = 1
    /\ tableData.rows[1] = RowOf(data[2], dynamicMonths)

\* C2: given the list of getAvailableMonths on the same records, every
\* output row has a month key for each discovered label and no other month
\* key, also for months the entity has no entry for and for months that
\* occur only in inactive records.
C2_MonthKeysEqualDiscoveredMonths ==
    Returned =>
        \A k \in 1..Len(tableData.rows) :
            (DOMAIN tableData.rows[k]) \ BaseKeys = DiscoveredLabels

C2_Witness ==
    /\ Returned
    /\ Len(data) = 2
    /\ ~HasActiveStatus(data[1]) /\ HasActiveStatus(data[2])
    /\ Len(tableData.rows) = 1
    /\ "March" \in DOMAIN tableData.rows[1]
    /\ MatchingEntries(data[2], "March") = {}
    /\ MatchingEntries(data[1], "March") # {}
    /\ "July" \in DOMAIN tableData.rows[1]

\* C3: the pipeline never raises an error, whatever nested field is absent
\* (also the month label of an individual-month entry); it returns a month
\* list and rows, a missing value shown as its sentinel string.
C3_PipelineNeverRaises ==
    /\ pc # "threw"
    /\ Returned =>
        \A i \in ActiveIndices : \A m \in DiscoveredLabels :
            MatchingEntries(data[i], m) = {}
                => tableData.rows[RankOf(i)][m] = Str0Pct

\* C4: calculateNetEarningsPrevMonth always returns a finite number; with an
\* unparsable costs string in the entry of the target period the costs
\* contribution is 0, so the result is the revenue share alone.
C4_NetEarningsAlwaysFinite ==
    pc \in {"net", "netText"} =>
        /\ IsFinite(net)
        /\ IsNaN(CostsOf(entityArg)) => NumEq(net, RevenueOf(entityArg))

\* C5: net earnings = (earnings of the first quarter named "Q3") / 3 minus
\* (costs of the first entry of the target period "2024-07"), the cost array
\* being potentialEarningsByMonth when present and costsByMonth otherwise; a
\* missing array or entry contributes 0.  Costs "100" and Q3 earnings "300"
\* give 0, formatted "0.00 EUR".
ClaimedCostArray(e) ==
    IF ~IsPresent(e.costsByMonth) THEN <<>>
    ELSE IF IsPresent(Get(e.costsByMonth).potentialEarningsByMonth)
         THEN Get(Get(e.costsByMonth).potentialEarningsByMonth)
    ELSE IF IsPresent(Get(e.costsByMonth).costsByMonth)
         THEN Get(Get(e.costsByMonth).costsByMonth)
    ELSE <<>>

ClaimedQuarters(e) ==
    IF IsPresent(e.workforceUtilisation)
       /\ IsPresent(Get(e.workforceUtilisation).quarterEarnings)
    THEN Get(Get(e.workforceUtilisation).quarterEarnings)
    ELSE <<>>

\* the number a numeric string stands for, 0 when it is missing or empty
AmountOf(o) ==
    IF ~IsPresent(o) \/ Get(o) = <<>> THEN Num(0, 1) ELSE ParseFloat(Get(o))

ClaimedNet(e) ==
    LET arr == ClaimedCostArray(e)
        qs == ClaimedQuarters(e)
        cHits == {i \in 1..Len(arr) : arr[i].month = "2024-07"}
        qHits == {i \in 1..Len(qs) : qs[i].name = "Q3"}
        costs == IF cHits = {} THEN Num(0, 1) ELSE AmountOf(arr[MinOf(cHits)].costs)
        earnings == IF qHits = {} THEN Num(0, 1)
                    ELSE AmountOf(qs[MinOf(qHits)].earnings)
    IN  Sub(DivBy(earnings, 3), costs)

IsC5Example(e) ==
    /\ ClaimedCostArray(e) = <<CostEntry("2024-07", Some(S_100))>>
    /\ ClaimedQuarters(e) = <<Quarter("Q3", Some(S_300))>>

C5_NetIsQ3ShareMinusCosts ==
    /\ pc \in {"net", "netText"} => NumEq(net, ClaimedNet(entityArg))
    /\ pc = "netText" /\ IsC5Example(entityArg) =>
          /\ NumEq(net, Num(0, 1))
          /\ netText = Str0Eur

C5_Witness ==
    /\ pc = "netText"
    /\ IsC5Example(entityArg)
    /\ ~IsPresent(Get(entityArg.costsByMonth).potentialEarningsByMonth)
    /\ netText = Str0Eur

\* C6: getAvailableMonths returns each non-empty month label of any record's
\* lastThreeMonthsIndividually exactly once and nothing else, ordered
\* non-decreasingly by the month-name lookup, unrecognized labels (lookup 0)
\* first; labels discovered as March, January come out as January, March.
C6_MonthsDistinctAndChronological ==
    pc \in {"months", "table"} =>
        /\ {dynamicMonths[k] : k \in 1..Len(dynamicMonths)} = DiscoveredLabels
        /\ Len(dynamicMonths) = Cardinality(DiscoveredLabels)
        /\ \A k \in 1..Len(dynamicMonths) : \A l \in 1..Len(dynamicMonths) :
              k < l => LookupRank(dynamicMonths[k]) <= LookupRank(dynamicMonths[l])
        /\ \A k \in 1..Len(dynamicMonths) : \A l \in 1..Len(dynamicMonths) :
              LookupRank(dynamicMonths[k]) = 0 /\ LookupRank(dynamicMonths[l]) > 0
                  => k < l
        /\ DiscoveredLabels = {"March", "January"}
              => dynamicMonths = <<"January", "March">>

C6_Witness ==
    /\ pc = "months"
    /\ Len(data) = 1
    /\ Len(EntriesOf(data[1])) = 2
    /\ EntriesOf(data[1])[1].month = Some("March")
    /\ EntriesOf(data[1])[2].month = Some("January")
    /\ dynamicMonths = <<"January", "March">>

\* C7: for every active entity and discovered month column, the cell is the
\* formatted utilisationRate of the first entry whose label equals the column
\* label ignoring case ("july" satisfies "July"); later matches are ignored,
\* and without a match the value is treated as absent.
C7_CellIsFirstCaseInsensitiveMatch ==
    Returned =>
        \A i \in ActiveIndices : \A m \in DiscoveredLabels :
            tableData.rows[RankOf(i)][m] =
                IF MatchingEntries(data[i], m) = {} THEN FormatPercentage(Null)
                ELSE FormatPercentage(ParseFloat(Get(
                        EntriesOf(data[i])[MinOf(MatchingEntries(data[i], m))]
                            .utilisationRate)))

C7_Witness ==
    /\ Returned
    /\ Len(data) = 1
    /\ HasActiveStatus(data[1])
    /\ EntriesOf(data[1]) = <<MonthEntry(Some("july"), Some(S_03)),
                             MonthEntry(Some("July"), Some(S_09))>>
    /\ tableData.rows[1]["July"] = <<"3", "0", "%">>

\* C8: person is "<firstname> <lastname>" of the resolved entity, followed
\* by " (External)" exactly when the record is populated under the external
\* role; Ana Lee gives "Ana Lee (External)" as external, "Ana Lee" as internal.
StrAnaLee == <<"A", "n", "a", " ", "L", "e", "e">>

C8_PersonHasExternalSuffix ==
    Returned =>
        \A i \in ActiveIndices :
            LET e == Get(ResolveEntity(data[i]))
                name == e.firstname \o <<" ">> \o e.lastname
                person == tableData.rows[RankOf(i)]["person"]
            IN  /\ IsPresent(data[i].externals) => person = name \o StrExternal
                /\ IsPresent(data[i].employees) => person = name
                /\ e.firstname = S_Ana /\ e.lastname = S_Lee =>
                      person = IF IsPresent(data[i].externals)
                               THEN StrAnaLee \o <<" ", "(", "E", "x", "t", "e",
                                                   "r", "n", "a", "l", ")">>
                               ELSE StrAnaLee

C8_Witness ==
    /\ Returned
    /\ Len(tableData.rows) = 2
    /\ IsPresent(data[1].externals) /\ IsPresent(data[2].employees)
    /\ tableData.rows[1]["person"] = StrAnaLee \o StrExternal
    /\ tableData.rows[2]["person"] = StrAnaLee

\* C9: formatPercentage of an absent or not-a-number value is "0%" and
\* formatCurrency of one is "0.00 EUR"; so an active entity whose
\* utilisationRateLastTwelveMonths / utilisationRateYearToDate is absent,
\* empty or unparsable has past12Months / y2d "0%", and a discovered month
\* the entity has no entry for has the cell "0%".
C9_SentinelsForMissingValues ==
    /\ FormatPercentage(Null) = <<"0", "%">>
    /\ FormatPercentage(NaN) = <<"0", "%">>
    /\ FormatCurrency(Null) = <<"0", ".", "0", "0", " ", "E", "U", "R">>
    /\ FormatCurrency(NaN) = <<"0", ".", "0", "0", " ", "E", "U", "R">>
    /\ Returned =>
        \A i \in ActiveIndices :
            LET row == tableData.rows[RankOf(i)]
            IN  /\ NoRatio(SummaryOf(data[i], "u12")) =>
                      row["past12Months"] = <<"0", "%">>
                /\ NoRatio(SummaryOf(data[i], "ytd")) => row["y2d"] = <<"0", "%">>
                /\ \A m \in DiscoveredLabels :
                      MatchingEntries(data[i], m) = {} => row[m] = <<"0", "%">>

C9_Witness ==
    /\ Returned
    /\ Len(data) = 2
    /\ HasActiveStatus(data[2])
    /\ ~IsPresent(SummaryOf(data[2], "u12"))
    /\ SummaryOf(data[2], "ytd") = Some(S_abc)
    /\ IsPresent(WorkforceOf(ResolveEntity(data[2])))
    /\ "March" \in DiscoveredLabels
    /\ MatchingEntries(data[2], "March") = {}
    /\ tableData.rows[RankOf(2)]["past12Months"] = Str0Pct
    /\ tableData.rows[RankOf(2)]["y2d"] = Str0Pct
    /\ tableData.rows[RankOf(2)]["March"] = Str0Pct

\* C10: getUtilizationColor never returns the neutral colour for a string
\* produced by formatPercentage: an absent or unparsable ratio ("0%") is low,
\* and every ratio is high (>= 80), medium (>= 50, < 80) or low (< 50).
C10_FormattedRatioIsNeverNeutral ==
    pc = "cell" =>
        /\ color # COLOR_NEUTRAL
        /\ color \in {COLOR_HIGH, COLOR_MEDIUM, COLOR_LOW}
        /\ ~IsFinite(value) => pctText = <<"0", "%">> /\ color = COLOR_LOW
        /\ IsFinite(value) =>
              LET hundredTimes == value.n * 100
              IN  /\ hundredTimes >= 80 * value.d => color = COLOR_HIGH
                  /\ hundredTimes >= 50 * value.d /\ hundredTimes < 80 * value.d
                        => color = COLOR_MEDIUM
                  /\ hundredTimes < 50 * value.d => color = COLOR_LOW
        /\ value = Num(0, 100) => pctText = <<"0", "%">> /\ color = COLOR_LOW

C10_Witness ==
    /\ pc = "cell"
    /\ value = NaN
    /\ pctText = <<"0", "%">>
    /\ color = COLOR_LOW

====
